---- MODULE Spec2Model ----
(***************************************************************************)
(* Model of coalib.bearlib.languages.Language (the language registry, the  *)
(* descriptor parser, Language instances and limit_versions) and of        *)
(* coalib.bearlib.aspects.base.aspectbase.                                 *)
(*                                                                         *)
(* Strings are sequences of one-character strings.  A number is a record   *)
(* [v, int]: v is the value in tenths, int tells a Python int from a       *)
(* Python float (isinstance(limit, int), str(11) = "11", str(11.0) =       *)
(* "11.0").  Python compares numbers by value, so equality of numbers is   *)
(* equality of v.  The list/tuple distinction of `versions` is not kept.   *)
(***************************************************************************)
EXTENDS Integers, Sequences, FiniteSets, TLC

VARIABLES registry, result, aspect

vars == <<registry, result, aspect>>

\* ------------------------------------------------------------------ bounds
MaxTypes == 2

\* ----------------------------------------------------------------- numbers
F(x) == [v |-> x, int |-> FALSE]
I(x) == [v |-> x * 10, int |-> TRUE]

NumEq(a, b) == a.v = b.v

NumIn(n, vs) == \E k \in 1..Len(vs) : NumEq(n, vs[k])

\* int(version): truncation to the integer part, as a Python int
IntOf(n) == I(n.v \div 10)

\* sorted(): a stable insertion sort on the numeric value
RECURSIVE InsertSorted(_, _)
InsertSorted(n, vs) ==
    IF vs = <<>> THEN <<n>>
    ELSE IF n.v < Head(vs).v THEN <<n>> \o vs
    ELSE <<Head(vs)>> \o InsertSorted(n, Tail(vs))

RECURSIVE Sorted(_)
Sorted(vs) ==
    IF vs = <<>> THEN <<>>
    ELSE InsertSorted(vs[Len(vs)], Sorted(SubSeq(vs, 1, Len(vs) - 1)))

\* ----------------------------------------------------------------- strings
Lower(c) ==
    CASE c = "P" -> "p"
      [] c = "Y" -> "y"
      [] c = "C" -> "c"
      [] c = "X" -> "x"
      [] c = "O" -> "o"
      [] c = "Z" -> "z"
      [] OTHER -> c

LowerStr(s) == [k \in 1..Len(s) |-> Lower(s[k])]

IsSpace(c) == c = " "

DigitChars == <<"0", "1", "2", "3", "4", "5", "6", "7", "8", "9">>

IsDigit(c) == \E d \in 1..10 : DigitChars[d] = c

DigitVal(c) == (CHOOSE d \in 1..10 : DigitChars[d] = c) - 1

RECURSIVE Digits(_)
Digits(n) ==
    IF n < 10 THEN <<DigitChars[n + 1]>>
    ELSE Digits(n \div 10) \o <<DigitChars[(n % 10) + 1]>>

\* str(number): "11" for an int, "3.3" / "11.0" for a float
NumStr(n) ==
    IF n.int THEN Digits(n.v \div 10)
    ELSE Digits(n.v \div 10) \o <<".">> \o <<DigitChars[(n.v % 10) + 1]>>

RECURSIVE JoinVersions(_)
JoinVersions(vs) ==
    IF vs = <<>> THEN <<>>
    ELSE IF Len(vs) = 1 THEN NumStr(vs[1])
    ELSE NumStr(vs[1]) \o <<",", " ">> \o JoinVersions(Tail(vs))

RECURSIVE RStrip(_)
RStrip(s) ==
    IF s = <<>> THEN s
    ELSE IF IsSpace(s[Len(s)]) THEN RStrip(SubSeq(s, 1, Len(s) - 1))
    ELSE s

RECURSIVE LStrip(_)
LStrip(s) ==
    IF s = <<>> THEN s
    ELSE IF IsSpace(Head(s)) THEN LStrip(Tail(s))
    ELSE s

\* re.split(r',\s*', s): a comma and the whitespace after it separate tokens
RECURSIVE SplitFrom(_, _, _)
SplitFrom(s, cur, acc) ==
    IF s = <<>> THEN Append(acc, cur)
    ELSE IF Head(s) = "," THEN SplitFrom(LStrip(Tail(s)), <<>>, Append(acc, cur))
    ELSE SplitFrom(Tail(s), Append(cur, Head(s)), acc)

ReSplit(s) == SplitFrom(s, <<>>, <<>>)

\* str.rsplit(maxsplit=1): the parts left of and right of the last
\* whitespace run, trailing whitespace dropped; one part when there is no
\* such run, none for a blank string
LastSpace(s) ==
    IF \E k \in 1..Len(s) : IsSpace(s[k])
    THEN CHOOSE k \in 1..Len(s) :
            IsSpace(s[k]) /\ \A m \in (k + 1)..Len(s) : ~IsSpace(s[m])
    ELSE 0

RSplitAt(t, k, left) ==
    IF t = <<>> THEN <<>>
    ELSE IF k = 0 \/ left = <<>> THEN <<SubSeq(t, k + 1, Len(t))>>
    ELSE <<left, SubSeq(t, k + 1, Len(t))>>

RSplitStripped(t, k) == RSplitAt(t, k, RStrip(SubSeq(t, 1, k)))

RSplitLast(t) == RSplitStripped(t, LastSpace(t))

RSplit1(s) == RSplitLast(RStrip(s))

\* float(s) on unsigned decimals with at most one fractional digit, which
\* covers every text the model builds; anything else is a conversion error
RECURSIVE DigitsValue(_)
DigitsValue(s) ==
    IF s = <<>> THEN 0
    ELSE DigitsValue(SubSeq(s, 1, Len(s) - 1)) * 10 + DigitVal(s[Len(s)])

AllDigits(s) == \A k \in 1..Len(s) : IsDigit(s[k])

DotAt(s) ==
    IF \E k \in 1..Len(s) : s[k] = "."
    THEN CHOOSE k \in 1..Len(s) : s[k] = "." /\ \A m \in 1..(k - 1) : s[m] # "."
    ELSE 0

FloatParts(ip, fp) ==
    IF /\ AllDigits(ip) /\ AllDigits(fp)
       /\ Len(ip) + Len(fp) > 0
       /\ Len(fp) <= 1
    THEN [ok |-> TRUE, val |-> F(DigitsValue(ip) * 10 + DigitsValue(fp))]
    ELSE [ok |-> FALSE, val |-> F(0)]

FloatAt(t, d) ==
    FloatParts(IF d = 0 THEN t ELSE SubSeq(t, 1, d - 1),
               IF d = 0 THEN <<>> ELSE SubSeq(t, d + 1, Len(t)))

FloatStripped(t) == FloatAt(t, DotAt(t))

FloatOf(s) == FloatStripped(LStrip(RStrip(s)))

MapFloat(toks) == [k \in 1..Len(toks) |-> FloatOf(toks[k])]

Values(fl) == [k \in 1..Len(fl) |-> fl[k].val]

\* parse_lang_str: ok = FALSE is the ValueError of float() on a token after
\* a comma.  The name is overwritten by the left part of the rsplit before
\* the right part is converted, and stays overwritten when that fails.
Parsed(name, versions) == [ok |-> TRUE, name |-> name, versions |-> versions]

ParseVersion(name, f, versions0) ==
    Parsed(name, IF f.ok THEN <<f.val>> \o versions0 ELSE versions0)

ParseParts(name0, parts, versions0) ==
    IF Len(parts) # 2 THEN Parsed(name0, versions0)
    ELSE ParseVersion(parts[1], FloatOf(parts[2]), versions0)

ParseName(name0, fl) ==
    IF \E k \in 1..Len(fl) : ~fl[k].ok
    THEN [ok |-> FALSE, name |-> <<>>, versions |-> <<>>]
    ELSE ParseParts(name0, RSplit1(name0), Values(fl))

ParseTokens(toks) == ParseName(Head(toks), MapFloat(Tail(toks)))

parse_lang_str(string) == ParseTokens(ReSplit(string))

\* ------------------------------------------------- declared languages
\* The classes handed to the Language decorator: __name__, __qualname__
\* (the __name__ unless the class sets it), the aliases attribute when the
\* class has one, the versions attribute as written (absent = <<>>).
NoAliases == [has |-> FALSE, seq |-> <<>>]
Aliases(seq) == [has |-> TRUE, seq |-> seq]

Declared ==
    << [name |-> <<"P", "y">>, qualname |-> <<"P", "y">>,
        aliases |-> Aliases(<< <<"P">> >>),
        versions |-> <<F(33), F(27), F(34)>>],
       [name |-> <<"O", "C">>, qualname |-> <<"O", " ", "C">>,
        aliases |-> Aliases(<< <<"P">> >>),
        versions |-> <<I(14), I(11)>>],
       [name |-> <<"X">>, qualname |-> <<"X">>,
        aliases |-> Aliases(<<>>),
        versions |-> <<>>],
       [name |-> <<"Y">>, qualname |-> <<"Y">>,
        aliases |-> NoAliases,
        versions |-> <<F(33)>>],
       [name |-> <<"P", "y", "t", "h", "o", "n">>,
        qualname |-> <<"P", "y", "t", "h", "o", "n">>,
        aliases |-> Aliases(<< <<"p", "y">> >>),
        versions |-> <<F(27), F(33), F(34), F(35), F(36)>>],
       [name |-> <<"C", "P", "P">>, qualname |-> <<"C", "+", "+">>,
        aliases |-> Aliases(<< <<"C", "X", "X">> >>),
        versions |-> <<I(11), I(14), I(17)>>] >>

\* LanguageMeta.__call__ on Language: the class Sub that is registered
Sub(arg) ==
    [name |-> arg.name, qualname |-> arg.qualname, aliases |-> arg.aliases,
     versions |-> Sorted(arg.versions)]

\* ------------------------------------------------------------- outcomes
NoInst == [type |-> 0, versions |-> <<>>]

Out(kind, err, type, versions, bool, text) ==
    [kind |-> kind, err |-> err, type |-> type, versions |-> versions,
     bool |-> bool, text |-> text]

Raise(err) == Out("err", err, 0, <<>>, FALSE, <<>>)
RetType(t) == Out("type", "", t, <<>>, FALSE, <<>>)
RetInst(t, vs) == Out("inst", "", t, vs, FALSE, <<>>)
RetBool(b) == Out("bool", "", 0, <<>>, b, <<>>)
RetText(s) == Out("text", "", 0, <<>>, FALSE, s)
RetNone == Out("none", "", 0, <<>>, FALSE, <<>>)

InstOf(out) == [type |-> out.type, versions |-> out.versions]

\* ------------------------------------------------------------ Language
\* Language.__init__ that stores the given versions as given
Init_Language_Unsorted(reg, t, versions) ==
    IF \E k \in 1..Len(versions) : ~NumIn(versions[k], reg[t].versions)
    THEN Raise("AssertionError")
    ELSE IF versions = <<>> THEN RetInst(t, reg[t].versions)
    ELSE RetInst(t, versions)

\* Language.__init__ on the registered class reg[t]
Init_Language(reg, t, versions) ==
    IF \E k \in 1..Len(versions) : ~NumIn(versions[k], reg[t].versions)
    THEN Raise("AssertionError")
    ELSE IF versions = <<>> THEN RetInst(t, reg[t].versions)
    ELSE RetInst(t, Sorted(versions))

\* Language.__str__
Str(reg, inst) ==
    reg[inst.type].qualname \o <<" ">> \o JoinVersions(inst.versions)

\* the names a class answers to in __contains__
NamesOf(cls) ==
    {LowerStr(cls.aliases.seq[k]) : k \in 1..Len(cls.aliases.seq)}
        \cup {LowerStr(cls.qualname), LowerStr(cls.name)}

AliasesAttrName == <<"a", "l", "i", "a", "s", "e", "s">>

\* cls.aliases on a class without the attribute: LanguageMeta.__getattr__
\* scans the registry for a class containing 'aliases'; the test on a class
\* that itself lacks the attribute asks the same question again, without
\* end.  (No declared class answers to the name 'aliases'.)
RECURSIVE MissingAliases(_, _)
MissingAliases(reg, j) ==
    IF j > Len(reg) THEN "AttributeError"
    ELSE IF ~reg[j].aliases.has THEN "RecursionError"
    ELSE IF LowerStr(AliasesAttrName) \in NamesOf(reg[j]) THEN "TypeError"
    ELSE MissingAliases(reg, j + 1)

\* LanguageMeta.__contains__(cls, item) for item given as text
\* (an instance is passed as str(instance))
ContainsParsed(reg, t, p) ==
    IF ~p.ok THEN Raise("ValueError")
    ELSE IF ~reg[t].aliases.has THEN Raise(MissingAliases(reg, 1))
    ELSE RetBool(/\ LowerStr(p.name) \in NamesOf(reg[t])
                 /\ \A k \in 1..Len(p.versions) :
                        NumIn(p.versions[k], reg[t].versions))

Contains(reg, t, text) == ContainsParsed(reg, t, parse_lang_str(text))

\* LanguageMeta.__getattr__(cls, item): the first registered class that
\* contains item; an exception of the membership test passes through
RECURSIVE ScanFrom(_, _, _)
ScanStep(reg, item, j, c) ==
    IF c.kind = "err" THEN c
    ELSE IF c.bool THEN RetType(j)
    ELSE ScanFrom(reg, item, j + 1)

ScanFrom(reg, item, j) ==
    IF j > Len(reg) THEN Raise("AttributeError")
    ELSE ScanStep(reg, item, j, Contains(reg, j, item))

GetAttr(reg, item) == ScanFrom(reg, item, 1)

\* LanguageMeta.__getitem__(cls, item)
CallFound(reg, cls, versions) ==
    IF cls.kind = "err" THEN cls
    ELSE Init_Language(reg, cls.type, versions)

GetItemParsed(reg, p) ==
    IF ~p.ok THEN Raise("ValueError")
    ELSE CallFound(reg, GetAttr(reg, p.name), p.versions)

GetItem(reg, text) == GetItemParsed(reg, parse_lang_str(text))

\* ---------------------------------------------------------- limit_versions
Ops == {"gt", "lt", "ge", "le", "eq", "ne"}

Apply(op, a, b) ==
    CASE op = "gt" -> a.v > b.v
      [] op = "lt" -> a.v < b.v
      [] op = "ge" -> a.v >= b.v
      [] op = "le" -> a.v <= b.v
      [] op = "eq" -> a.v = b.v
      [] op = "ne" -> a.v # b.v

\* the reflected operator Python tries when number.__op__(instance) is
\* NotImplemented
Reflected(op) ==
    CASE op = "gt" -> "lt"
      [] op = "lt" -> "gt"
      [] op = "ge" -> "le"
      [] op = "le" -> "ge"
      [] op = "eq" -> "eq"
      [] op = "ne" -> "ne"

\* the comparison without the truncation for an int limit
Keeps_Raw(op, version, limit) == Apply(op, version, limit)

Keeps(op, version, limit) ==
    IF limit.int THEN Apply(op, IntOf(version), limit)
    ELSE Apply(op, version, limit)

\* limit_versions without the test for an empty result
LimitByNumber_Unchecked(reg, language, limit, op) ==
    Init_Language(reg, language.type,
                  SelectSeq(language.versions,
                            LAMBDA version : Keeps(op, version, limit)))

\* limit_versions with a number as limit
LimitByNumber(reg, language, limit, op) ==
    LET versions == SelectSeq(language.versions,
                              LAMBDA version : Keeps(op, version, limit))
    IN  IF versions = <<>> THEN Raise("NoVersionsLeft")
        ELSE Init_Language(reg, language.type, versions)

\* limit_versions with a Language instance as limit: operator(version,
\* limit) becomes limit.__rop__(version), itself a limit_versions call that
\* raises or returns an instance, and an instance is true
FirstRaise(reg, language, other, op) ==
    LET bad == {k \in 1..Len(language.versions) :
                  LimitByNumber(reg, other, language.versions[k],
                                Reflected(op)).kind = "err"}
        k0 == CHOOSE k \in bad : \A m \in bad : k <= m
    IN  IF bad = {} THEN RetNone
        ELSE LimitByNumber(reg, other, language.versions[k0], Reflected(op))

LimitByInstance(reg, language, other, op) ==
    LET r == FirstRaise(reg, language, other, op)
    IN  IF r.kind = "err" THEN r
        ELSE IF language.versions = <<>> THEN Raise("NoVersionsLeft")
        ELSE Init_Language(reg, language.type, language.versions)

\* limit_versions
limit_versions(reg, language, limit, op) ==
    IF limit.isinst
    THEN LimitByInstance(reg, language, limit.inst, op)
    ELSE LimitByNumber(reg, language, limit.num, op)

NumLimit(n) == [isinst |-> FALSE, num |-> n, inst |-> NoInst]
InstLimit(i) == [isinst |-> TRUE, num |-> F(0), inst |-> i]

\* LanguageMeta.__gt__ ... __ne__: cls() op other
ClassCompare(reg, t, limit, op) ==
    LET self == Init_Language(reg, t, <<>>)
    IN  IF self.kind = "err" THEN self
        ELSE limit_versions(reg, InstOf(self), limit, op)

\* ------------------------------------------------------------- aspectbase
\* type(self).tastes of the aspectclass under test: for each taste its
\* cast_type and its default
TasteNames == {"level", "ratio"}

Cast(name, value) == IF name = "level" THEN IntOf(value) ELSE F(value.v)

Default(name) == IF name = "level" THEN I(1) ELSE F(5)

NoValue == [given |-> FALSE, value |-> F(0)]
Given(value) == [given |-> TRUE, value |-> value]

\* aspectbase.__init__: every taste is cast from the given value or from
\* its default and written into __dict__
Init_aspectbase(taste_values) ==
    [name \in TasteNames |->
        Cast(name, IF taste_values[name].given
                   THEN taste_values[name].value
                   ELSE Default(name))]

\* a __setattr__ that stores the value of a taste
SetAttr_aspectbase_Stores(dict, name, value) ==
    [dict |-> [n \in TasteNames |-> IF n = name THEN value ELSE dict[n]],
     out |-> RetNone]

\* aspectbase.__setattr__: raises, whatever the name and the value
SetAttr_aspectbase(dict, name, value) ==
    [dict |-> dict, out |-> Raise("AttributeError")]

\* attribute assignment on a Language instance: Language defines no
\* __setattr__ and does not derive from aspectbase, so object.__setattr__
\* stores the value
SetAttr_Language(inst, versions) ==
    RetInst(inst.type, versions)

\* ------------------------------------------------------------- state
In(text, type, versions, limit, src) ==
    [text |-> text, type |-> type, versions |-> versions, limit |-> limit,
     src |-> src]

NoIn == In(<<>>, 0, <<>>, NumLimit(F(0)), NoInst)

Done(op, in, out) == [op |-> op, in |-> in, out |-> out]

HasInst == result.out.kind = "inst"

Types == 1..Len(registry)

Init ==
    /\ registry = <<>>
    /\ result = Done("start", NoIn, RetNone)
    /\ aspect = [made |-> FALSE, dict |-> [name \in TasteNames |-> F(0)]]

\* a registration that keeps one class per declaration
Register_Once(d) ==
    /\ Len(registry) < MaxTypes
    /\ registry' = IF \E j \in Types : registry[j] = Sub(Declared[d])
                   THEN registry
                   ELSE Append(registry, Sub(Declared[d]))
    /\ result' = Done("register", In(<<>>, d, <<>>, NumLimit(F(0)), NoInst),
                      RetType(Len(registry) + 1))
    /\ UNCHANGED aspect

\* @Language class ...: LanguageMeta.__call__ with cls is Language
Register(d) ==
    /\ Len(registry) < MaxTypes
    /\ registry' = Append(registry, Sub(Declared[d]))
    /\ result' = Done("register", In(<<>>, d, <<>>, NumLimit(F(0)), NoInst),
                      RetType(Len(registry) + 1))
    /\ UNCHANGED aspect

\* Language.<identifier> / getattr(Language, identifier)
LookupByName(text) ==
    /\ result' = Done("lookup", In(text, 0, <<>>, NumLimit(F(0)), NoInst),
                      GetAttr(registry, text))
    /\ UNCHANGED <<registry, aspect>>

\* str(instance)
StrOf ==
    /\ HasInst
    /\ result' = Done("str", In(<<>>, 0, <<>>, NumLimit(F(0)), InstOf(result.out)),
                      RetText(Str(registry, InstOf(result.out))))
    /\ UNCHANGED <<registry, aspect>>

\* Language[text]
Resolve(text) ==
    /\ result' = Done("resolve", In(text, 0, <<>>, NumLimit(F(0)), NoInst),
                      GetItem(registry, text))
    /\ UNCHANGED <<registry, aspect>>

\* Language[str(instance)]: the text is the one str() just returned
ResolveStr ==
    /\ result.op = "str"
    /\ result' = Done("resolve",
                      In(result.out.text, 0, <<>>, NumLimit(F(0)), result.in.src),
                      GetItem(registry, result.out.text))
    /\ UNCHANGED <<registry, aspect>>

\* text in cls
ContainsText(t, text) ==
    /\ t \in Types
    /\ result' = Done("contains", In(text, t, <<>>, NumLimit(F(0)), NoInst),
                      Contains(registry, t, text))
    /\ UNCHANGED <<registry, aspect>>

\* instance in cls
ContainsInst(t) ==
    /\ t \in Types
    /\ HasInst
    /\ result' = Done("contains",
                      In(<<>>, t, <<>>, NumLimit(F(0)), InstOf(result.out)),
                      Contains(registry, t, Str(registry, InstOf(result.out))))
    /\ UNCHANGED <<registry, aspect>>

\* cls(*versions)
Construct(t, versions) ==
    /\ t \in Types
    /\ result' = Done("construct", In(<<>>, t, versions, NumLimit(F(0)), NoInst),
                      Init_Language(registry, t, versions))
    /\ UNCHANGED <<registry, aspect>>

\* instance op number
Compare(op, n) ==
    /\ HasInst
    /\ result' = Done(op, In(<<>>, 0, <<>>, NumLimit(n), InstOf(result.out)),
                      limit_versions(registry, InstOf(result.out), NumLimit(n), op))
    /\ UNCHANGED <<registry, aspect>>

\* instance op other, other the Language instance cls(*versions)
CompareInst(op, t, versions) ==
    /\ HasInst
    /\ t \in Types
    /\ Init_Language(registry, t, versions).kind = "inst"
    /\ LET other == InstLimit(InstOf(Init_Language(registry, t, versions)))
       IN  result' = Done(op, In(<<>>, 0, <<>>, other, InstOf(result.out)),
                          limit_versions(registry, InstOf(result.out), other, op))
    /\ UNCHANGED <<registry, aspect>>

\* cls op number
CompareClass(t, op, n) ==
    /\ t \in Types
    /\ result' = Done(op, In(<<>>, t, <<>>, NumLimit(n), NoInst),
                      ClassCompare(registry, t, NumLimit(n), op))
    /\ UNCHANGED <<registry, aspect>>

\* instance.versions = versions
SetVersions(versions) ==
    /\ HasInst
    /\ result' = Done("setattr", In(<<>>, 0, versions, NumLimit(F(0)), InstOf(result.out)),
                      SetAttr_Language(InstOf(result.out), versions))
    /\ UNCHANGED <<registry, aspect>>

\* aspect = SomeAspect(**taste_values)
NewAspect(taste_values) ==
    /\ aspect' = [made |-> TRUE, dict |-> Init_aspectbase(taste_values)]
    /\ result' = Done("aspect", NoIn, RetNone)
    /\ UNCHANGED registry

\* aspect.<name> = value
SetTaste(name, value) ==
    /\ aspect.made
    /\ LET r == SetAttr_aspectbase(aspect.dict, name, value)
       IN  /\ aspect' = [aspect EXCEPT !.dict = r.dict]
           /\ result' = Done("settaste", In(<<>>, 0, <<value>>, NumLimit(F(0)), NoInst),
                             r.out)
    /\ UNCHANGED registry

\* ------------------------------------------------- the whole Language API
\* every operation, each on a few inputs
ApiDeclared == {1, 2, 3, 4}

ApiTexts ==
    { <<"p", " ", "3", ".", "3">>,
      <<"P", "Y", " ", "3", ".", "4", ",", " ", "2", ".", "7">>,
      <<"P", "y">>,
      <<"O", " ", "C">>,
      <<"o", " ", "c", " ", "1", "1">>,
      <<"X">>,
      <<"Y">>,
      <<"Z">>,
      <<"P", "y", ",", " ", "!">> }

ApiArgs == { <<>>, <<F(33)>>, <<F(34), F(27)>>, <<F(99)>>, <<I(11)>> }

ApiOthers == { <<>>, <<F(33)>> }

ApiAssigned == { <<>>, <<F(99), F(33)>> }

ApiLimits == { I(3), F(33) }

Next ==
    \/ \E d \in ApiDeclared : Register(d)
    \/ \E text \in ApiTexts : LookupByName(text)
    \/ StrOf
    \/ \E text \in ApiTexts : Resolve(text)
    \/ ResolveStr
    \/ \E t \in Types, text \in ApiTexts : ContainsText(t, text)
    \/ \E t \in Types : ContainsInst(t)
    \/ \E t \in Types, versions \in ApiArgs : Construct(t, versions)
    \/ \E op \in Ops, n \in ApiLimits : Compare(op, n)
    \/ \E op \in Ops, t \in Types, versions \in ApiOthers :
          CompareInst(op, t, versions)
    \/ \E t \in Types, op \in Ops, n \in ApiLimits : CompareClass(t, op, n)
    \/ \E versions \in ApiAssigned : SetVersions(versions)

Spec == Init /\ [][Next]_vars

\* ------------------------------------------- names, lookup and membership
\* the operations that take or give text, on classes that all declare
\* their aliases
NamesDeclared == {1, 2, 3}

NamesIdentifiers ==
    { <<"P", "y">>, <<"p", "Y">>, <<"p">>, <<"O", " ", "C">>,
      <<"o", "c">>, <<"X">>, <<"Z">> }

NamesSuffixes ==
    { <<>>, <<" ", "3", ".", "3">>, <<" ", "1", "1">>,
      <<" ", "3", ".", "4", ",", " ", "2", ".", "7">>, <<",", " ", "!">> }

NamesTexts == {n \o x : n \in NamesIdentifiers, x \in NamesSuffixes}

NamesArgs == { <<>>, <<F(33)>>, <<F(34), F(27)>>, <<I(14)>> }

NextNames ==
    \/ \E d \in NamesDeclared : Register(d)
    \/ \E text \in NamesIdentifiers : LookupByName(text)
    \/ StrOf
    \/ \E text \in NamesTexts : Resolve(text)
    \/ ResolveStr
    \/ \E t \in Types, text \in NamesTexts : ContainsText(t, text)
    \/ \E t \in Types : ContainsInst(t)
    \/ \E t \in Types, versions \in NamesArgs : Construct(t, versions)

SpecNames == Init /\ [][NextNames]_vars

\* ------------------------------------------------- versions and limits
VersionsDeclared == {3, 5, 6}

VersionsTexts ==
    { <<"p", "y", " ", "3", ".", "6", ",", " ", "3", ".", "3">>,
      <<"c", "x", "x", " ", "1", "7">>,
      <<"X">>,
      <<"P", "y", "t", "h", "o", "n", " ", "2", ".", "6">> }

VersionsArgs ==
    { <<>>, <<F(36)>>, <<F(35), F(27)>>, <<F(33), F(33)>>, <<F(26)>>,
      <<I(14), F(26)>>, <<I(17), I(11)>> }

VersionsAssigned == { <<F(36), F(26)>> }

VersionsLimits == { I(3), F(33), F(35), F(30), I(14) }

NextVersions ==
    \/ \E d \in VersionsDeclared : Register(d)
    \/ \E text \in VersionsTexts : Resolve(text)
    \/ \E t \in Types, versions \in VersionsArgs : Construct(t, versions)
    \/ \E op \in Ops, n \in VersionsLimits : Compare(op, n)
    \/ \E t \in Types, op \in Ops, n \in VersionsLimits : CompareClass(t, op, n)
    \/ \E versions \in VersionsAssigned : SetVersions(versions)

SpecVersions == Init /\ [][NextVersions]_vars

\* ------------------------------------------------- attribute assignment
TasteValues == { NoValue, Given(F(27)), Given(I(3)) }

Assignable == { "level", "ratio", "other" }

NextAssign ==
    \/ \E d \in {1, 3} : Register(d)
    \/ \E t \in Types, versions \in ApiArgs : Construct(t, versions)
    \/ \E versions \in ApiAssigned : SetVersions(versions)
    \/ \E op \in Ops, n \in ApiLimits : Compare(op, n)
    \/ \E tv \in [TasteNames -> TasteValues] : NewAspect(tv)
    \/ \E name \in Assignable, value \in {F(27), I(3)} : SetTaste(name, value)

SpecAssign == Init /\ [][NextAssign]_vars

\* ------------------------------------------------------------- claims
Obtaining == {"construct", "resolve"} \cup Ops

Comparing == result.op \in Ops /\ ~result.in.limit.isinst

\* the instance a comparison started from: the receiver, or cls() for a
\* comparison on the class
Receiver ==
    IF result.in.type = 0 THEN result.in.src
    ELSE [type |-> result.in.type, versions |-> registry[result.in.type].versions]

Ascending(vs) == \A k \in 1..(Len(vs) - 1) : vs[k].v <= vs[k + 1].v

Within(vs, all) == \A k \in 1..Len(vs) : \E m \in 1..Len(all) : vs[k].v = all[m].v

Occurrences(vs, n) == Cardinality({k \in 1..Len(vs) : vs[k] = n})

SameValues(vs, ws) ==
    /\ Len(vs) = Len(ws)
    /\ \A k \in 1..Len(vs) : Occurrences(vs, vs[k]) = Occurrences(ws, vs[k])

\* an instance as the data model has it: versions ascending, within its
\* type's all_versions
DataModelInstance(inst) ==
    /\ inst.type \in Types
    /\ Ascending(inst.versions)
    /\ Within(inst.versions, registry[inst.type].versions)

Satisfies(op, a, b) ==
    CASE op = "gt" -> a > b
      [] op = "lt" -> a < b
      [] op = "ge" -> a >= b
      [] op = "le" -> a <= b
      [] op = "eq" -> a = b
      [] op = "ne" -> a # b

Trunc(tenths) == (tenths \div 10) * 10

C3_Expected ==
    SelectSeq(Receiver.versions,
              LAMBDA v : Satisfies(result.op,
                                   IF result.in.limit.num.int THEN Trunc(v.v) ELSE v.v,
                                   result.in.limit.num.v))

C3_Restriction ==
    (Comparing /\ DataModelInstance(Receiver))
        => IF C3_Expected = <<>>
           THEN result.out.kind = "err" /\ result.out.err = "NoVersionsLeft"
           ELSE /\ result.out.kind = "inst"
                /\ result.out.type = Receiver.type
                /\ result.out.versions = C3_Expected

\* (Python > 3.3) <= 3.5 on 2.7, 3.3, 3.4, 3.5, 3.6 has yielded 3.4, 3.5
C3_Witness ==
    /\ result.op = "le"
    /\ result.in.limit = NumLimit(F(35))
    /\ result.in.src.versions = <<F(34), F(35), F(36)>>
    /\ result.out.kind = "inst"
    /\ result.out.versions = <<F(34), F(35)>>

\* C9: the versions of every instance obtained by construct, resolve or a
\* relational operator are ascending and within the type's all_versions;
\* construct fails when a given version is not in all_versions, otherwise
\* stores the given values sorted, or all_versions when none is given.
C9_SortedWithin ==
    /\ (result.op \in Obtaining /\ result.out.kind = "inst")
          => /\ Ascending(result.out.versions)
             /\ Within(result.out.versions, registry[result.out.type].versions)
    /\ result.op = "construct"
          => IF ~Within(result.in.versions, registry[result.in.type].versions)
             THEN result.out.kind = "err"
             ELSE /\ result.out.kind = "inst"
                  /\ result.out.type = result.in.type
                  /\ IF result.in.versions = <<>>
                     THEN result.out.versions = registry[result.in.type].versions
                     ELSE SameValues(result.out.versions, result.in.versions)

C9_Witness ==
    /\ result.op = "construct"
    /\ result.out.kind = "inst"
    /\ Len(result.in.versions) = 2
    /\ result.in.versions[1].v > result.in.versions[2].v
    /\ result.out.versions = <<result.in.versions[2], result.in.versions[1]>>

\* C7: the registry starts empty; a registration appends the one new class
\* at the end, also when the same class is registered already, and every
\* other operation, failed or not, leaves the registry as it was.
C7_AppendOnly ==
    /\ registry = <<>>
    /\ [][IF result'.op = "register"
          THEN /\ Len(registry') = Len(registry) + 1
               /\ SubSeq(registry', 1, Len(registry)) = registry
               /\ registry'[Len(registry')] = Sub(Declared[result'.in.type])
          ELSE registry' = registry]_vars

C7_Witness ==
    /\ result.op = "register"
    /\ Len(registry) = 2
    /\ registry[1] = registry[2]

C6_StructuralEquality ==
    (result.op = "eq" /\ result.in.limit.isinst)
        => /\ result.out.kind = "bool"
           /\ result.out.bool =
                 (/\ result.in.src.type = result.in.limit.inst.type
                  /\ result.in.src.versions = result.in.limit.inst.versions)

\* C2 as stated: lookup_by_name returns the first registered class, in
\* registration order, one of whose names (canonical name, declaring
\* identifier, alias) equals the identifier ignoring case, and fails with
\* the not-found error exactly when there is none.
C2_Hits == {j \in Types : LowerStr(result.in.text) \in NamesOf(registry[j])}

C2_FirstMatch ==
    result.op = "lookup"
        => IF C2_Hits = {}
           THEN result.out = Raise("AttributeError")
           ELSE result.out = RetType(CHOOSE j \in C2_Hits : \A m \in C2_Hits : j <= m)

\* the name of a text candidate as section 4.1 describes it: the first
\* token without a trailing number, and the whole first token when its
\* last word is not a number
C4_TextName ==
    LET first == Head(ReSplit(result.in.text))
        parts == RSplit1(first)
    IN  IF Len(parts) = 2 /\ FloatOf(parts[2]).ok THEN parts[1] ELSE first

\* C4 as stated: contains is true exactly when the candidate's name (for
\* an instance: one of its type's names) matches one of the class's names
\* ignoring case and every version the candidate gives is in the class's
\* all_versions.
C4_Membership ==
    result.op = "contains"
        => IF result.in.src.type # 0
           THEN result.out =
                   RetBool(/\ NamesOf(registry[result.in.src.type])
                                 \cap NamesOf(registry[result.in.type]) # {}
                           /\ Within(result.in.src.versions,
                                     registry[result.in.type].versions))
           ELSE parse_lang_str(result.in.text).ok
                   => result.out =
                         RetBool(/\ LowerStr(C4_TextName)
                                       \in NamesOf(registry[result.in.type])
                                 /\ Within(parse_lang_str(result.in.text).versions,
                                           registry[result.in.type].versions))

\* C5 as stated: resolve(str(instance)) gives an instance of the same
\* class with the same versions.
C5_RoundTrip ==
    (result.op = "resolve" /\ result.in.src.type # 0)
        => /\ result.out.kind = "inst"
           /\ registry[result.out.type] = registry[result.in.src.type]
           /\ Len(result.out.versions) = Len(result.in.src.versions)
           /\ \A k \in 1..Len(result.out.versions) :
                 NumEq(result.out.versions[k], result.in.src.versions[k])

\* the registry with the aliases of a class that declares none taken as
\* the empty tuple
C10_Declaring(reg) ==
    [j \in 1..Len(reg) |-> [reg[j] EXCEPT !.aliases = Aliases(reg[j].aliases.seq)]]

\* C10 as stated: with a class that declares no aliases in the registry,
\* lookup, resolve and contains give what they give when that class
\* declares an empty alias set.
C10_AliasesOptional ==
    /\ result.op = "lookup"
          => result.out = GetAttr(C10_Declaring(registry), result.in.text)
    /\ result.op = "resolve"
          => result.out = GetItem(C10_Declaring(registry), result.in.text)
    /\ result.op = "contains"
          => result.out =
                Contains(C10_Declaring(registry), result.in.type,
                         IF result.in.src.type # 0
                         THEN Str(registry, result.in.src)
                         ELSE result.in.text)

====
